---- MODULE Spec2Model ----
(***************************************************************************)
(* RouPremium backend: the checkout route POST /api/simulacao/sair of      *)
(* src/RouPremium-backend/src/routes/simulacao.js, run for concurrent      *)
(* requests against one PostgreSQL database (schema of                    *)
(* prisma/migrations/20250921171157_init/migration.sql).                   *)
(*                                                                         *)
(* prisma.$transaction(async tx => ...) is an interactive transaction at   *)
(* the database's default isolation level, READ COMMITTED: every statement *)
(* sees the rows committed when the statement starts, the transaction's    *)
(* own writes stay invisible to the others until COMMIT, a DELETE locks    *)
(* the rows it removes, and a statement that meets a row locked by another *)
(* transaction waits for that transaction to end and then looks at the row *)
(* again.  Every `await` of the handler is a point where other requests    *)
(* run.                                                                    *)
(*                                                                         *)
(* RouPremium client screen: component TelaAppCliente and class EventBus   *)
(* of src/RouPremium-frontend/telaCellphone/src/components/                *)
(* TelaAppCliente.js.  The screen is driven by external events, button     *)
(* presses and the answers of its API requests, in any order; the effects  *)
(* of a render (the renewal of the item-adicionado subscription, the cart  *)
(* fetch) run after the render and at the latest before the next one.     *)
(***************************************************************************)
EXTENDS Integers, Sequences, FiniteSets, TLC

\* ------------------------------------------------------------------ bounds
MaxQtd == 2
MaxAdicoes == 3
MaxAlteracoes == 1
MaxItens == 2
MaxEmVoo == 2
MaxInscricoes == 3

\* --------------------------------------------------------------- constants
\* valor_total DECIMAL(10,2): eight integer digits, two decimals
MaxReais == 99999999

Clientes == {1, 2}
Produtos == {1, 2}
Pedidos == {"p1", "p2"}

\* ------------------------------------------------- Prisma.Decimal (money)
\* A DECIMAL(_,2) value is kept as its integer part and its two decimals.
Dec(r, c) == [r |-> r, c |-> c]

DecZero == Dec(0, 0)

\* Decimal.times(n) for an integer n >= 0: exact, the cents carry over
DecTimes(d, n) ==
    LET cents == d.c * n
    IN  Dec(d.r * n + (cents \div 100), cents % 100)

\* Decimal.plus with the carry of the cents lost
DecPlus_SemVaiUm(a, b) == Dec(a.r + b.r, (a.c + b.c) % 100)

\* Decimal.plus: exact, the cents carry over
DecPlus(a, b) ==
    LET cents == a.c + b.c
    IN  Dec(a.r + b.r + (cents \div 100), cents % 100)

\* a column that stores whatever it is given
CabeNaColuna_Sempre(d) == TRUE

\* the value fits the column DECIMAL(10,2)
CabeNaColuna(d) == d.r <= MaxReais

\* ------------------------------------------------------------- seed data
\* prisma seed: 'Camisa de Seda' 799.90, 'Calça Jeans' 499.90
ClientesSeed ==
    (1 :> [id |-> 1, nome |-> "Moises",    metodoPagamento |-> "credito_final_4242"]) @@
    (2 :> [id |-> 2, nome |-> "Gabrielle", metodoPagamento |-> "credito_final_5151"])

ProdutosSeed ==
    (1 :> [id |-> 1, nome |-> "Camisa de Seda", preco |-> Dec(799, 90)]) @@
    (2 :> [id |-> 2, nome |-> "Calca Jeans",    preco |-> Dec(499, 90)])

\* a catalog at the upper end of produtos.preco DECIMAL(10,2): the largest
\* price and the smallest
ProdutosCaros ==
    (1 :> [id |-> 1, nome |-> "Jaqueta de Couro", preco |-> Dec(MaxReais, 99)]) @@
    (2 :> [id |-> 2, nome |-> "Camisa Polo",      preco |-> Dec(0, 1)])

\* the names and prices a catalog change may give a product
Nomes == {"Camisa de Seda", "Calca Jeans", "Camisa Polo"}

Precos == {Dec(799, 90), Dec(499, 90), Dec(899, 90)}

\* ------------------------------------------------------------------ state
VARIABLES
    produtos,       \* table produtos: id -> row
    carrinhos,      \* table carrinhos, committed: <<clienteId, produtoId>> -> quantidade (0: no row)
    compras,        \* table compras, committed rows in insertion order
    comprasIdSeq,   \* last value of the sequence behind compras.id (SERIAL)
    pc,             \* request -> the await its handler stands at
    clienteId,      \* request -> req.body.clienteId
    itensCarrinho,  \* request -> result of tx.carrinhoItem.findMany
    novaCompra,     \* request -> row inserted by tx.compra.create, not yet committed
    delSnap,        \* request -> rows its DELETE statement found and still has to remove
    txDel,          \* request -> rows its transaction has deleted (and locks) until COMMIT
    res,            \* request -> the HTTP response sent
    alteracoes,     \* number of catalog changes made so far
    adicionado,     \* <<clienteId, produtoId>> -> units added to the cart so far
    cancelado,      \* request -> its caller has given the request up
    resEntrar,      \* the HTTP response of the last POST /simulacao/entrar
    clientes,       \* table clientes: id -> row
    addAposLimpar   \* request -> a cart line of its shopper was added after its DELETE began

\* the client screen (TelaAppCliente) and the EventBus
VARIABLES
    estadoAtual,    \* useState('boas-vindas'): the screen shown
    dadosCliente,   \* useState(null): the client that entered the store
    carrinho,       \* useState({ itens: [] }): the items of the local cart
    dadosCompra,    \* useState(null): the result of the finalized purchase
    interfaceState, \* useState({ loading: false, error: null })
    apiLoading,     \* useApiCall: loading
    apiError,       \* useApiCall: error
    emVoo,          \* <<kind of request, clienteId>> -> makeRequest calls not yet completed
    capEstado,      \* estadoAtual as captured by the subscribed item-adicionado callback
    capCliente,     \* dadosCliente?.id as captured by the subscribed callback
    events,         \* EventBus.events: event name -> subscribed callbacks, in order
    inscricoes,     \* history: event name -> the subscriptions made and not cancelled
    proximaInscricao, \* history: number of subscribe calls so far
    chamadas        \* the calls <<callback, data>> made by the last emit, in order

servidor == <<produtos, carrinhos, compras, comprasIdSeq, pc, clienteId, itensCarrinho,
              novaCompra, delSnap, txDel, res, addAposLimpar, adicionado,
              alteracoes, cancelado, resEntrar, clientes>>

tela == <<estadoAtual, dadosCliente, carrinho, dadosCompra, interfaceState, apiLoading,
          apiError, emVoo, capEstado, capCliente>>

bus == <<events, inscricoes, proximaInscricao, chamadas>>

vars == <<servidor, tela, bus>>

Chaves == Clientes \X Produtos

\* number of add-to-cart requests served so far
RECURSIVE SomaEm(_, _)
SomaEm(f, S) ==
    IF S = {} THEN 0
    ELSE LET k == CHOOSE x \in S : TRUE IN f[k] + SomaEm(f, S \ {k})

adicoes == SomaEm(adicionado, Chaves)

\* the clienteId of a request whose body carries none (undefined)
Indefinido == -1

SemCompra == [id |-> 0, clienteId |-> 0, valorTotal |-> DecZero, itensComprados |-> <<>>]

SemResposta == [status |-> 0, body |-> [error |-> ""]]

\* no row of produtos (a deleted product; a relation not loaded yet)
SemProduto == [id |-> 0, nome |-> "", preco |-> DecZero]

MsgCarrinhoVazio == "O carrinho esta vazio. Nenhuma compra foi realizada."

MsgPersistencia == "erro do banco de dados"

\* the message of the error thrown when the product of a cart row is not found
MsgValidacao == "Argument cliente is missing."
MsgProdutoAusente == "produto do item nao encontrado"

\* ------------------------------------------------------------ the queries
\* a filter that matches the rows of every shopper
Where_Todos(c, k) == TRUE

\* where: { clienteId: c }; Prisma leaves a filter whose value is undefined
\* out of the query, which then matches the rows of every shopper
Where(c, k) == c = Indefinido \/ k[1] = c

\* the committed rows of carrinhos matching where: { clienteId: c }
LinhasDe(c) == {k \in Chaves : carrinhos[k] > 0 /\ Where(c, k)}

\* a row of carrinhos as its SELECT returns it, the relation not loaded yet
Linha(k) ==
    [clienteId |-> k[1], produtoId |-> k[2], quantidade |-> carrinhos[k],
     produto |-> SemProduto]

\* include: { produto: true }: the rows with the products the second SELECT
\* (produtos WHERE id IN ...) finds for them
ComProduto(itens) ==
    [i \in 1..Len(itens) |-> [itens[i] EXCEPT !.produto = produtos[itens[i].produtoId]]]

\* item.produto?.preco ?? 0: a missing product goes unnoticed
FaltaProduto_Ignora(itens) == FALSE

\* the product of some row was not found
FaltaProduto(itens) == \E i \in 1..Len(itens) : itens[i].produto = SemProduto

\* the orders in which the database may return a set of rows (no ORDER BY)
Ordens(S) ==
    {s \in [1..Cardinality(S) -> S] : \A k \in S : \E i \in 1..Cardinality(S) : s[i] = k}

\* !itensCarrinho: an array, empty or not, is never falsy
EstaVazio_ArrayTruthy(itens) == FALSE

\* itensCarrinho.length === 0
EstaVazio(itens) == Len(itens) = 0

\* item.produto.preco.times(item.quantidade)
Subtotal(item) == DecTimes(item.produto.preco, item.quantidade)

\* valorTotal after the map callback has run over the first n items
RECURSIVE ValorTotalAte(_, _)
ValorTotalAte(itens, n) ==
    IF n = 0 THEN DecZero
    ELSE DecPlus(ValorTotalAte(itens, n - 1), Subtotal(itens[n]))

\* valorTotal = subtotal: each item overwrites the total
ValorTotal_SoUltimo(itens) ==
    IF Len(itens) = 0 THEN DecZero ELSE Subtotal(itens[Len(itens)])

\* valorTotal when the map has run over every item
ValorTotal(itens) == ValorTotalAte(itens, Len(itens))

\* the snapshot line carrying the line's subtotal as its unit price
ItemComprado_PrecoSubtotal(item) ==
    [id |-> item.produto.id, nome |-> item.produto.nome,
     preco |-> Subtotal(item), quantidade |-> item.quantidade]

\* the object the map callback returns for one item
ItemComprado(item) ==
    [id |-> item.produto.id, nome |-> item.produto.nome,
     preco |-> item.produto.preco, quantidade |-> item.quantidade]

\* the map stopping one item short
ItensComprados_SemUltimo(itens) == [i \in 1..(Len(itens) - 1) |-> ItemComprado(itens[i])]

\* itensCarrinho.map(...)
ItensComprados(itens) == [i \in 1..Len(itens) |-> ItemComprado(itens[i])]

\* data: { clienteId, valorTotal, itensComprados } with the id the sequence gives
DadosCompra(id, c, itens) ==
    [id |-> id, clienteId |-> c, valorTotal |-> ValorTotal(itens),
     itensComprados |-> ItensComprados(itens)]

\* ------------------------------------------------- transaction outcomes
\* rows locked by the uncommitted DELETE of a request other than p
Bloqueadas(p) == UNION {txDel[q] : q \in Pedidos \ {p}}

\* an update of the last row of compras in place of an insert
ComprasAposCommit_Sobrescreve(p) ==
    IF compras = <<>> THEN <<novaCompra[p]>>
    ELSE [compras EXCEPT ![Len(compras)] = novaCompra[p]]

\* table compras after the transaction of p commits
ComprasAposCommit(p) == Append(compras, novaCompra[p])

\* the created row surviving the rollback (created outside the transaction)
ComprasAposRollback_Mantem(p) ==
    IF novaCompra[p].id > 0 THEN Append(compras, novaCompra[p]) ELSE compras

\* table compras after the transaction of p rolls back
ComprasAposRollback(p) == compras

\* the commit without the deletes (the cart is never cleared)
CarrinhosAposCommit_SemLimpar(p) == carrinhos

\* table carrinhos after the transaction of p commits
CarrinhosAposCommit(p) == [k \in Chaves |-> IF k \in txDel[p] THEN 0 ELSE carrinhos[k]]

\* res.status(201).json(compraRealizada)
RespostaSucesso(compra) == [status |-> 201, body |-> compra]

\* res.status(400).json({ error: error.message })
RespostaErro(msg) == [status |-> 400, body |-> [error |-> msg]]

\* ------------------------------------------------- the client screen: data
\* null and undefined
Nulo == [nulo |-> TRUE]

\* dadosCliente?.id, clienteId: 0 stands for a falsy id
IdDe(cliente) == IF cliente = Nulo THEN 0 ELSE cliente.id

Estados == {"boas-vindas", "carrinho", "recibo"}

\* the data of event cliente-entrou-loja
ClientesDoEvento == {[id |-> 1, nome |-> "Joao Silva"], [id |-> 2, nome |-> "Moises"]}

\* the data of event item-adicionado
ItensDoEvento ==
    {[produto |-> [id |-> 101, nome |-> "Camisa de Seda", preco |-> "799.90"],
      quantidade |-> 1]}

\* the bodies GET /api/carrinho/:clienteId may answer with (null is read as [])
RespostasCarrinho ==
    {<<>>,
     <<[produto |-> [id |-> 101, nome |-> "Camisa de Seda", preco |-> "799.90"],
        quantidade |-> 1]>>}

\* dadosSimulados of buscarCarrinho
CarrinhoSimulado ==
    <<[produto |-> [nome |-> "Camisa de Seda", preco |-> "799.90"], quantidade |-> 1],
      [produto |-> [nome |-> "Calca Social", preco |-> "459.90"], quantidade |-> 2]>>

\* dadosSimulados of finalizarCompra
CompraSimulada ==
    [id |-> 123, valorTotal |-> "1259.80",
     itensComprados |->
        <<[produto |-> [nome |-> "Camisa de Seda", preco |-> "799.90"], quantidade |-> 1]>>]

\* the Purchase a successful POST /api/simulacao/sair { clienteId: c } answers with
CompraDaApi(c) == [id |-> c, clienteId |-> c, valorTotal |-> "799.90"]

Tipos == {"carrinho", "sair"}
IdsDeCliente == {c.id : c \in ClientesDoEvento}

EmVooTotal == SomaEm(emVoo, Tipos \X IdsDeCliente)

InterfaceInicial == [loading |-> FALSE, error |-> Nulo]

InitTela ==
    /\ estadoAtual = "boas-vindas"
    /\ dadosCliente = Nulo
    /\ carrinho = <<>>
    /\ dadosCompra = Nulo
    /\ interfaceState = InterfaceInicial
    /\ apiLoading = FALSE
    /\ apiError = Nulo
    /\ emVoo = [k \in Tipos \X IdsDeCliente |-> 0]
    /\ capEstado = "boas-vindas"
    /\ capCliente = 0

\* ------------------------------------------------------- the EventBus: data
Eventos == {"cliente-entrou-loja", "item-adicionado", "cliente-pagou"}
Callbacks == {"cb1", "cb2"}
Dados == {"d1", "d2"}

\* constructor: this.events = {} (an event without entry has no callback)
InitBus ==
    /\ events = [e \in Eventos |-> <<>>]
    /\ inscricoes = [e \in Eventos |-> <<>>]
    /\ proximaInscricao = 0
    /\ chamadas = <<>>

\* ------------------------------------------------------------------- Init
Init ==
    /\ produtos = ProdutosSeed
    /\ carrinhos = [k \in Chaves |-> 0]
    /\ compras = <<>>
    /\ comprasIdSeq = 0
    /\ pc = [p \in Pedidos |-> "idle"]
    /\ clienteId = [p \in Pedidos |-> 0]
    /\ itensCarrinho = [p \in Pedidos |-> <<>>]
    /\ novaCompra = [p \in Pedidos |-> SemCompra]
    /\ delSnap = [p \in Pedidos |-> {}]
    /\ txDel = [p \in Pedidos |-> {}]
    /\ res = [p \in Pedidos |-> SemResposta]
    /\ addAposLimpar = [p \in Pedidos |-> FALSE]
    /\ adicionado = [k \in Chaves |-> 0]
    /\ alteracoes = 0
    /\ cancelado = [p \in Pedidos |-> FALSE]
    /\ resEntrar = SemResposta
    /\ clientes = ClientesSeed
    /\ InitTela
    /\ InitBus

\* ---------------------------------------------------------------- actions
\* POST /api/carrinho/adicionar { clienteId, produtoId }: one more unit of the
\* product in the shopper's cart, a new row or quantidade + 1 (one statement,
\* committed at once; it waits while the row is locked by a pending DELETE;
\* carrinhos_produtoId_fkey refuses a product that does not exist)
AdicionarAoCarrinho(c, prod) ==
    /\ produtos[prod] # SemProduto
    /\ carrinhos[<<c, prod>>] < MaxQtd
    /\ adicoes < MaxAdicoes
    /\ adicionado' = [adicionado EXCEPT ![<<c, prod>>] = @ + 1]
    /\ <<c, prod>> \notin UNION {txDel[q] : q \in Pedidos}
    /\ carrinhos' = [carrinhos EXCEPT ![<<c, prod>>] = @ + 1]
    /\ addAposLimpar' = [p \in Pedidos |->
            addAposLimpar[p] \/ (pc[p] \in {"deleting", "commit"} /\ clienteId[p] = c)]
    /\ UNCHANGED <<tela, bus, clientes, cancelado, resEntrar, alteracoes, produtos, compras, comprasIdSeq, pc, clienteId,
                   itensCarrinho, novaCompra, delSnap, txDel, res>>

\* the catalog changes: a product gets another name or price (the names stay
\* unique, produtos_nome_key)
AlterarProduto(prod, nome, preco) ==
    /\ alteracoes < MaxAlteracoes
    /\ alteracoes' = alteracoes + 1
    /\ \A o \in Produtos \ {prod} : produtos[o].nome # nome
    /\ produtos[prod] # [id |-> prod, nome |-> nome, preco |-> preco]
    /\ produtos' = [produtos EXCEPT ![prod] = [id |-> prod, nome |-> nome, preco |-> preco]]
    /\ UNCHANGED <<tela, bus, clientes, cancelado, resEntrar, adicionado, carrinhos, compras, comprasIdSeq, pc, clienteId, itensCarrinho,
                   novaCompra, delSnap, txDel, res, addAposLimpar>>

\* a product is deleted from the catalog; carrinhos_produtoId_fkey (ON DELETE
\* RESTRICT) refuses it while a row of carrinhos, even one whose DELETE is not
\* committed yet, refers to the product
RemoverProduto(prod) ==
    /\ produtos[prod] # SemProduto
    /\ \A k \in Chaves : k[2] = prod => carrinhos[k] = 0
    /\ produtos' = [produtos EXCEPT ![prod] = SemProduto]
    /\ UNCHANGED <<tela, bus, clientes, cancelado, resEntrar, alteracoes, adicionado, carrinhos, compras, comprasIdSeq, pc, clienteId,
                   itensCarrinho, novaCompra, delSnap, txDel, res, addAposLimpar>>

\* the request arrives and prisma.$transaction opens the transaction
Sair(p, c) ==
    /\ pc[p] = "idle"
    /\ pc' = [pc EXCEPT ![p] = "findMany"]
    /\ clienteId' = [clienteId EXCEPT ![p] = c]
    /\ UNCHANGED <<tela, bus, clientes, cancelado, resEntrar, alteracoes, adicionado, produtos, carrinhos, compras, comprasIdSeq, itensCarrinho, novaCompra,
                   delSnap, txDel, res, addAposLimpar>>

\* tx.carrinhoItem.findMany(...), first statement: the SELECT on carrinhos
\* returns; with no row the result is [] and the empty check throws; with rows
\* the SELECT on produtos for the include is issued
FindMany(p) ==
    /\ pc[p] = "findMany"
    /\ \E ordem \in Ordens(LinhasDe(clienteId[p])) :
         LET itens == [i \in 1..Len(ordem) |-> Linha(ordem[i])]
         IN  /\ itensCarrinho' = [itensCarrinho EXCEPT ![p] = itens]
             /\ IF EstaVazio(itens)
                  THEN /\ pc' = [pc EXCEPT ![p] = "done"]
                       /\ res' = [res EXCEPT ![p] = RespostaErro(MsgCarrinhoVazio)]
                       /\ compras' = ComprasAposRollback(p)
                  ELSE /\ pc' = [pc EXCEPT ![p] = "include"]
                       /\ res' = res
                       /\ compras' = compras
    /\ UNCHANGED <<tela, bus, clientes, cancelado, resEntrar, alteracoes, adicionado, produtos, carrinhos, comprasIdSeq, clienteId, novaCompra,
                   delSnap, txDel, addAposLimpar>>

\* await tx.carrinhoItem.findMany(...) returns with the products joined; a row
\* whose product is gone makes the call (or item.produto.preco) throw and the
\* transaction roll back; otherwise the map computes valorTotal and
\* itensComprados and tx.compra.create is issued
Include(p) ==
    /\ pc[p] = "include"
    /\ LET itens == ComProduto(itensCarrinho[p])
       IN  /\ itensCarrinho' = [itensCarrinho EXCEPT ![p] = itens]
           /\ IF FaltaProduto(itens)
                THEN /\ pc' = [pc EXCEPT ![p] = "done"]
                     /\ res' = [res EXCEPT ![p] = RespostaErro(MsgProdutoAusente)]
                     /\ compras' = ComprasAposRollback(p)
                     /\ novaCompra' = novaCompra
                ELSE /\ pc' = [pc EXCEPT ![p] = "create"]
                     /\ res' = res
                     /\ compras' = compras
                     /\ novaCompra' = [novaCompra EXCEPT ![p] =
                            DadosCompra(0, clienteId[p], itens)]
    /\ UNCHANGED <<tela, bus, clientes, cancelado, resEntrar, alteracoes, adicionado, produtos, carrinhos, comprasIdSeq, clienteId, delSnap, txDel,
                   addAposLimpar>>

\* a create that takes data without clienteId
CreateAceita_Qualquer(dados) == TRUE

\* the client validates the data of a create before it sends any SQL:
\* clienteId is a required field of Compra
CreateAceita(dados) == dados.clienteId # Indefinido

\* an id derived from the visible rows of the table instead of the sequence
ProximoId_Contagem == Len(compras) + 1

\* nextval of the sequence behind compras.id SERIAL: a value is handed out
\* once and is not given back by a rollback
ProximoId == comprasIdSeq + 1

\* await tx.compra.create(...) returns: data without clienteId is refused
\* before any SQL and the transaction rolls back; otherwise the row has its id
\* from the sequence (a sequence value is never given back) and is visible to
\* this transaction only; a total that does not fit DECIMAL(10,2) is refused
\* and the transaction rolls back; tx.carrinhoItem.deleteMany is issued
Create(p) ==
    /\ pc[p] = "create"
    /\ IF ~CreateAceita(novaCompra[p])
         THEN /\ comprasIdSeq' = comprasIdSeq
              /\ novaCompra' = novaCompra
              /\ pc' = [pc EXCEPT ![p] = "done"]
              /\ res' = [res EXCEPT ![p] = RespostaErro(MsgValidacao)]
              /\ compras' = ComprasAposRollback(p)
         ELSE /\ comprasIdSeq' = comprasIdSeq + 1
              /\ IF CabeNaColuna(novaCompra[p].valorTotal)
                   THEN /\ novaCompra' = [novaCompra EXCEPT ![p].id = ProximoId]
                        /\ pc' = [pc EXCEPT ![p] = "deleteMany"]
                        /\ res' = res
                        /\ compras' = compras
                   ELSE /\ novaCompra' = novaCompra
                        /\ pc' = [pc EXCEPT ![p] = "done"]
                        /\ res' = [res EXCEPT ![p] = RespostaErro(MsgPersistencia)]
                        /\ compras' = ComprasAposRollback(p)
    /\ UNCHANGED <<tela, bus, clientes, cancelado, resEntrar, alteracoes, adicionado, produtos, carrinhos, clienteId, itensCarrinho, delSnap, txDel,
                   addAposLimpar>>

\* the DELETE statement starts: it finds the committed rows of the shopper
DeleteManyInicio(p) ==
    /\ pc[p] = "deleteMany"
    /\ delSnap' = [delSnap EXCEPT ![p] = LinhasDe(clienteId[p])]
    /\ pc' = [pc EXCEPT ![p] = "deleting"]
    /\ UNCHANGED <<tela, bus, clientes, cancelado, resEntrar, alteracoes, adicionado, produtos, carrinhos, compras, comprasIdSeq, clienteId, itensCarrinho,
                   novaCompra, txDel, res, addAposLimpar>>

\* await tx.carrinhoItem.deleteMany(...) returns: no row it found is locked by
\* another transaction any more; the rows are deleted in this transaction
DeleteManyFim(p) ==
    /\ pc[p] = "deleting"
    /\ delSnap[p] \cap Bloqueadas(p) = {}
    /\ txDel' = [txDel EXCEPT ![p] = delSnap[p]]
    /\ delSnap' = [delSnap EXCEPT ![p] = {}]
    /\ pc' = [pc EXCEPT ![p] = "commit"]
    /\ UNCHANGED <<tela, bus, clientes, cancelado, resEntrar, alteracoes, adicionado, produtos, carrinhos, compras, comprasIdSeq, clienteId, itensCarrinho,
                   novaCompra, res, addAposLimpar>>

\* the callback returns novaCompra, the transaction commits, 201 is sent; a
\* DELETE of another transaction that waited for these rows finds them gone
Commit(p) ==
    /\ pc[p] = "commit"
    /\ compras' = ComprasAposCommit(p)
    /\ carrinhos' = CarrinhosAposCommit(p)
    /\ delSnap' = [q \in Pedidos |-> delSnap[q] \ txDel[p]]
    /\ txDel' = [txDel EXCEPT ![p] = {}]
    /\ res' = [res EXCEPT ![p] = RespostaSucesso(novaCompra[p])]
    /\ pc' = [pc EXCEPT ![p] = "done"]
    /\ UNCHANGED <<tela, bus, clientes, cancelado, resEntrar, alteracoes, adicionado, produtos, comprasIdSeq, clienteId, itensCarrinho, novaCompra,
                   addAposLimpar>>

\* a statement of the transaction (or its COMMIT) is rejected by the database:
\* the promise rejects, the transaction rolls back, the catch block answers
Falha(p) ==
    /\ pc[p] \in {"findMany", "include", "create", "deleteMany", "deleting", "commit"}
    /\ compras' = ComprasAposRollback(p)
    /\ txDel' = [txDel EXCEPT ![p] = {}]
    /\ delSnap' = [delSnap EXCEPT ![p] = {}]
    /\ res' = [res EXCEPT ![p] = RespostaErro(MsgPersistencia)]
    /\ pc' = [pc EXCEPT ![p] = "done"]
    /\ UNCHANGED <<tela, bus, clientes, cancelado, resEntrar, alteracoes, adicionado, produtos, carrinhos, comprasIdSeq, clienteId, itensCarrinho,
                   novaCompra, addAposLimpar>>

Next ==
    \/ \E c \in Clientes, prod \in Produtos : AdicionarAoCarrinho(c, prod)
    \/ \E p \in Pedidos, c \in Clientes : Sair(p, c)
    \/ \E p \in Pedidos : FindMany(p)
    \/ \E p \in Pedidos : Include(p)
    \/ \E p \in Pedidos : Create(p)
    \/ \E p \in Pedidos : DeleteManyInicio(p)
    \/ \E p \in Pedidos : DeleteManyFim(p)
    \/ \E p \in Pedidos : Commit(p)
    \/ \E p \in Pedidos : Falha(p)

\* the checkout requests and add-to-cart requests of the shoppers, in any
\* interleaving, over the seeded catalog
Spec == Init /\ [][Next]_vars

\* one checkout request and the add-to-cart requests while the catalog changes
NextCatalogo ==
    \/ \E prod \in Produtos, nome \in Nomes, preco \in Precos :
          AlterarProduto(prod, nome, preco)
    \/ \E c \in Clientes, prod \in Produtos : AdicionarAoCarrinho(c, prod)
    \/ \E c \in Clientes : Sair("p1", c)
    \/ FindMany("p1")
    \/ Include("p1")
    \/ Create("p1")
    \/ DeleteManyInicio("p1")
    \/ DeleteManyFim("p1")
    \/ Commit("p1")
    \/ Falha("p1")

SpecCatalogo == Init /\ [][NextCatalogo]_vars

\* two checkout requests of shopper 1, whose cart is not empty, with no
\* add-to-cart request and no database failure meanwhile
InitSimultaneo ==
    /\ produtos = ProdutosSeed
    /\ carrinhos \in [Chaves -> 0..MaxQtd]
    /\ \E k \in Chaves : k[1] = 1 /\ carrinhos[k] > 0
    /\ \A k \in Chaves : k[1] # 1 => carrinhos[k] = 0
    /\ compras = <<>>
    /\ comprasIdSeq = 0
    /\ pc = [p \in Pedidos |-> "idle"]
    /\ clienteId = [p \in Pedidos |-> 0]
    /\ itensCarrinho = [p \in Pedidos |-> <<>>]
    /\ novaCompra = [p \in Pedidos |-> SemCompra]
    /\ delSnap = [p \in Pedidos |-> {}]
    /\ txDel = [p \in Pedidos |-> {}]
    /\ res = [p \in Pedidos |-> SemResposta]
    /\ addAposLimpar = [p \in Pedidos |-> FALSE]
    /\ adicionado = carrinhos
    /\ alteracoes = 0
    /\ cancelado = [p \in Pedidos |-> FALSE]
    /\ resEntrar = SemResposta
    /\ clientes = ClientesSeed
    /\ InitTela
    /\ InitBus

NextSimultaneo ==
    \/ \E p \in Pedidos : Sair(p, 1)
    \/ \E p \in Pedidos : FindMany(p)
    \/ \E p \in Pedidos : Include(p)
    \/ \E p \in Pedidos : Create(p)
    \/ \E p \in Pedidos : DeleteManyInicio(p)
    \/ \E p \in Pedidos : DeleteManyFim(p)
    \/ \E p \in Pedidos : Commit(p)

SpecSimultaneo == InitSimultaneo /\ [][NextSimultaneo]_vars

\* request p has been answered with the created Purchase
Sucesso(p) == pc[p] = "done" /\ res[p].status = 201

\* request p has been answered with an error
Fracasso(p) == pc[p] = "done" /\ res[p].status # 201

\* the caller of a checkout answered with a database error repeats the call
\* for the same shopper
Retentar(p, q) ==
    /\ Fracasso(q)
    /\ res[q].body.error = MsgPersistencia
    /\ Sair(p, clienteId[q])

\* carts already filled, no add-to-cart request; the first checkout of a
\* shopper with a non-empty cart, and its repetition after a database error
InitRetentar ==
    /\ produtos = ProdutosSeed
    /\ carrinhos \in [Chaves -> 0..MaxQtd]
    /\ compras = <<>>
    /\ comprasIdSeq = 0
    /\ pc = [p \in Pedidos |-> "idle"]
    /\ clienteId = [p \in Pedidos |-> 0]
    /\ itensCarrinho = [p \in Pedidos |-> <<>>]
    /\ novaCompra = [p \in Pedidos |-> SemCompra]
    /\ delSnap = [p \in Pedidos |-> {}]
    /\ txDel = [p \in Pedidos |-> {}]
    /\ res = [p \in Pedidos |-> SemResposta]
    /\ addAposLimpar = [p \in Pedidos |-> FALSE]
    /\ adicionado = carrinhos
    /\ alteracoes = 0
    /\ cancelado = [p \in Pedidos |-> FALSE]
    /\ resEntrar = SemResposta
    /\ clientes = ClientesSeed
    /\ InitTela
    /\ InitBus

NextRetentar ==
    \/ \E c \in Clientes : LinhasDe(c) # {} /\ Sair("p1", c)
    \/ Retentar("p2", "p1")
    \/ \E p \in Pedidos : FindMany(p)
    \/ \E p \in Pedidos : Include(p)
    \/ \E p \in Pedidos : Create(p)
    \/ \E p \in Pedidos : DeleteManyInicio(p)
    \/ \E p \in Pedidos : DeleteManyFim(p)
    \/ \E p \in Pedidos : Commit(p)
    \/ \E p \in Pedidos : Falha(p)

SpecRetentar == InitRetentar /\ [][NextRetentar]_vars

\* the checkout and add-to-cart requests while products are deleted from the
\* catalog
NextRemocao ==
    \/ \E prod \in Produtos : RemoverProduto(prod)
    \/ \E c \in Clientes, prod \in Produtos : AdicionarAoCarrinho(c, prod)
    \/ \E p \in Pedidos, c \in Clientes : Sair(p, c)
    \/ \E p \in Pedidos : FindMany(p)
    \/ \E p \in Pedidos : Include(p)
    \/ \E p \in Pedidos : Create(p)
    \/ \E p \in Pedidos : DeleteManyInicio(p)
    \/ \E p \in Pedidos : DeleteManyFim(p)
    \/ \E p \in Pedidos : Commit(p)

SpecRemocao == Init /\ [][NextRemocao]_vars

\* the client ids a store-entry request may carry: the shoppers and an id no
\* row of table clientes has
IdsDeEntrada == Clientes \cup {Cardinality(Clientes) + 1}

SemCliente == [id |-> 0, nome |-> "", metodoPagamento |-> ""]
MsgClienteNaoEncontrado == "Cliente nao encontrado."
MsgErroEntrada == "Erro ao processar a entrada do cliente."

\* findFirst without the where: any row answers
FindUnique_Primeiro(id) == clientes[CHOOSE c \in DOMAIN clientes : TRUE]

\* prisma.cliente.findUnique({ where: { id } }): the row, or null
FindUnique(id) == IF id \in DOMAIN clientes THEN clientes[id] ELSE SemCliente

\* res.json({ status: 'sucesso', mensagem: `Cliente ${cliente.nome} entrou na loja.` })
RespostaEntrada(cliente) ==
    [status |-> 200,
     body |-> [status |-> "sucesso",
               mensagem |-> <<"Cliente ", cliente.nome, " entrou na loja.">>]]

\* POST /simulacao/entrar { clienteId: c }
Entrar(c) ==
    /\ LET cliente == FindUnique(c)
       IN  resEntrar' = IF cliente = SemCliente
                          THEN [status |-> 404, body |-> [error |-> MsgClienteNaoEncontrado]]
                          ELSE RespostaEntrada(cliente)
    /\ UNCHANGED <<tela, bus, clientes, cancelado, alteracoes, adicionado, produtos, carrinhos, compras,
                   comprasIdSeq, pc, clienteId, itensCarrinho, novaCompra, delSnap, txDel,
                   res, addAposLimpar>>

\* POST /simulacao/entrar whose findUnique throws (the database is unreachable)
EntrarFalha(c) ==
    /\ resEntrar' = [status |-> 500, body |-> [error |-> MsgErroEntrada]]
    /\ UNCHANGED <<tela, bus, clientes, cancelado, alteracoes, adicionado, produtos, carrinhos, compras,
                   comprasIdSeq, pc, clienteId, itensCarrinho, novaCompra, delSnap, txDel,
                   res, addAposLimpar>>

NextEntrar ==
    \/ \E c \in IdsDeEntrada : Entrar(c)
    \/ \E c \in IdsDeEntrada : EntrarFalha(c)
    \/ \E c \in Clientes, prod \in Produtos : AdicionarAoCarrinho(c, prod)
    \/ \E c \in Clientes : Sair("p1", c)
    \/ FindMany("p1")
    \/ Include("p1")
    \/ Create("p1")
    \/ DeleteManyInicio("p1")
    \/ DeleteManyFim("p1")
    \/ Commit("p1")
    \/ Falha("p1")

\* store entries of known and unknown clients between the steps of adds and
\* of a checkout
SpecEntrar == Init /\ [][NextEntrar]_vars

InitCaro ==
    /\ produtos = ProdutosCaros
    /\ carrinhos = [k \in Chaves |-> 0]
    /\ compras = <<>>
    /\ comprasIdSeq = 0
    /\ pc = [p \in Pedidos |-> "idle"]
    /\ clienteId = [p \in Pedidos |-> 0]
    /\ itensCarrinho = [p \in Pedidos |-> <<>>]
    /\ novaCompra = [p \in Pedidos |-> SemCompra]
    /\ delSnap = [p \in Pedidos |-> {}]
    /\ txDel = [p \in Pedidos |-> {}]
    /\ res = [p \in Pedidos |-> SemResposta]
    /\ addAposLimpar = [p \in Pedidos |-> FALSE]
    /\ adicionado = [k \in Chaves |-> 0]
    /\ alteracoes = 0
    /\ cancelado = [p \in Pedidos |-> FALSE]
    /\ resEntrar = SemResposta
    /\ clientes = ClientesSeed
    /\ InitTela
    /\ InitBus

\* the checkouts and adds of Spec over a catalog whose totals reach past the
\* largest value of compras.valor_total
SpecCaro == InitCaro /\ [][Next]_vars

NextSemCliente ==
    \/ \E c \in Clientes, prod \in Produtos : AdicionarAoCarrinho(c, prod)
    \/ Sair("p1", Indefinido)
    \/ \E c \in Clientes : Sair("p2", c)
    \/ \E p \in Pedidos : FindMany(p)
    \/ \E p \in Pedidos : Include(p)
    \/ \E p \in Pedidos : Create(p)
    \/ \E p \in Pedidos : DeleteManyInicio(p)
    \/ \E p \in Pedidos : DeleteManyFim(p)
    \/ \E p \in Pedidos : Commit(p)
    \/ \E p \in Pedidos : Falha(p)

\* a checkout request whose body carries no clienteId, next to adds and to a
\* checkout of a shopper
SpecSemCliente == Init /\ [][NextSemCliente]_vars

\* the caller gives up request p while its handler is still running (the
\* socket closes). The handler registers nothing on the request's close or
\* abort and passes no signal to prisma.$transaction: it keeps running.
Cancelar(p) ==
    /\ pc[p] \in {"findMany", "include", "create", "deleteMany", "deleting", "commit"}
    /\ ~cancelado[p]
    /\ cancelado' = [cancelado EXCEPT ![p] = TRUE]
    /\ UNCHANGED <<tela, bus, clientes, resEntrar, alteracoes, adicionado, produtos, carrinhos, compras, comprasIdSeq,
                   pc, clienteId, itensCarrinho, novaCompra, delSnap, txDel, res,
                   addAposLimpar>>

NextCancelar ==
    \/ \E c \in Clientes, prod \in Produtos : AdicionarAoCarrinho(c, prod)
    \/ \E p \in Pedidos, c \in Clientes : Sair(p, c)
    \/ \E p \in Pedidos : FindMany(p)
    \/ \E p \in Pedidos : Include(p)
    \/ \E p \in Pedidos : Create(p)
    \/ \E p \in Pedidos : DeleteManyInicio(p)
    \/ \E p \in Pedidos : DeleteManyFim(p)
    \/ \E p \in Pedidos : Commit(p)
    \/ \E p \in Pedidos : Falha(p)
    \/ Cancelar("p1")

\* checkouts and adds as in Spec; the caller of the first request may give it
\* up at any point before its transaction commits; Falha covers the
\* transaction timeout
SpecCancelar == Init /\ [][NextCancelar]_vars

\* --------------------------------------------- the client screen: actions
\* a makeRequest call started, completed
Mais(ev, k) == [ev EXCEPT ![k] = @ + 1]
Menos(ev, k) == [ev EXCEPT ![k] = @ - 1]

\* what the component renders
TelaMostrada ==
    IF apiError # Nulo /\ ~apiLoading THEN "erro-api"
    ELSE IF estadoAtual \in Estados THEN estadoAtual
    ELSE "estado-invalido"

\* the effects of the last render have not run yet: estadoAtual or
\* dadosCliente?.id differ from the values of the render whose effects ran last
EfeitosPendentes == <<estadoAtual, IdDe(dadosCliente)>> # <<capEstado, capCliente>>

\* useEffect (busca carrinho) of the last render is pending and will fetch
BuscaPendente ==
    EfeitosPendentes /\ estadoAtual = "carrinho" /\ IdDe(dadosCliente) # 0

\* The rest of every step that makes the component render again. React runs
\* the pending effects of the last render before the next one: useEvent
\* subscribes the item-adicionado callback of that render (it has captured
\* that render's estadoAtual and dadosCliente?.id) and the cart is fetched if
\* that render was of 'carrinho' with a client. ev and carregando are the
\* requests in flight and the loading flag as the step itself leaves them;
\* pedido tells whether the step started a request (setError(null)).
Passo(ev, carregando, pedido) ==
    LET ev2 == IF BuscaPendente THEN Mais(ev, <<"carrinho", IdDe(dadosCliente)>>) ELSE ev
    IN  /\ SomaEm(ev2, Tipos \X IdsDeCliente) <= MaxEmVoo
        /\ emVoo' = ev2
        /\ apiLoading' = (BuscaPendente \/ carregando)
        /\ apiError' = IF BuscaPendente \/ pedido THEN Nulo ELSE apiError
        /\ capEstado' = estadoAtual
        /\ capCliente' = IdDe(dadosCliente)

\* the pending effects run with no other step in between (the usual case)
Efeitos ==
    /\ EfeitosPendentes
    /\ Passo(emVoo, apiLoading, FALSE)
    /\ UNCHANGED <<servidor, bus, estadoAtual, dadosCliente, carrinho, dadosCompra,
                   interfaceState>>

\* button Comecar Compras of BoasVindas
IrParaCarrinho ==
    /\ TelaMostrada = "boas-vindas"
    /\ estadoAtual' = "carrinho"
    /\ Passo(emVoo, apiLoading, FALSE)
    /\ UNCHANGED <<servidor, bus, dadosCliente, carrinho, dadosCompra, interfaceState>>

\* back button of CarrinhoCompras
VoltarParaBoasVindas ==
    /\ TelaMostrada = "carrinho"
    /\ estadoAtual' = "boas-vindas"
    /\ Passo(emVoo, apiLoading, FALSE)
    /\ UNCHANGED <<servidor, bus, dadosCliente, carrinho, dadosCompra, interfaceState>>

\* GET /api/carrinho/c answers with a cart: setLoading(false), setCarrinho
BuscarCarrinhoSucesso(c, itens) ==
    /\ emVoo[<<"carrinho", c>>] > 0
    /\ carrinho' = itens
    /\ Passo(Menos(emVoo, <<"carrinho", c>>), FALSE, FALSE)
    /\ UNCHANGED <<servidor, bus, estadoAtual, dadosCliente, dadosCompra, interfaceState>>

\* GET /api/carrinho/c fails (not ok, HTML, no JSON, network):
\* setLoading(false), the error is not set, simulated data
BuscarCarrinhoFalha(c) ==
    /\ emVoo[<<"carrinho", c>>] > 0
    /\ carrinho' = CarrinhoSimulado
    /\ Passo(Menos(emVoo, <<"carrinho", c>>), FALSE, FALSE)
    /\ UNCHANGED <<servidor, bus, estadoAtual, dadosCliente, dadosCompra, interfaceState>>

\* button Finalizar Compra of CarrinhoCompras (shown when the cart has items
\* and loading is false); without a client id the callback returns at once;
\* makeRequest: setLoading(true), setError(null), fetch
FinalizarCompra ==
    /\ TelaMostrada = "carrinho"
    /\ ~apiLoading
    /\ carrinho # <<>>
    /\ IdDe(dadosCliente) # 0
    /\ Passo(Mais(emVoo, <<"sair", IdDe(dadosCliente)>>), TRUE, TRUE)
    /\ UNCHANGED <<servidor, bus, estadoAtual, dadosCliente, carrinho, dadosCompra,
                   interfaceState>>

\* POST /api/simulacao/sair { clienteId: c } answers 201 with the Purchase
FinalizarCompraSucesso(c) ==
    /\ emVoo[<<"sair", c>>] > 0
    /\ dadosCompra' = CompraDaApi(c)
    /\ carrinho' = <<>>
    /\ estadoAtual' = "recibo"
    /\ Passo(Menos(emVoo, <<"sair", c>>), FALSE, FALSE)
    /\ UNCHANGED <<servidor, bus, dadosCliente, interfaceState>>

\* POST /api/simulacao/sair fails (400 empty cart, 400 failure of the
\* database, API unreachable): the catch shows a simulated Purchase
FinalizarCompraFalha(c) ==
    /\ emVoo[<<"sair", c>>] > 0
    /\ dadosCompra' = CompraSimulada
    /\ carrinho' = <<>>
    /\ estadoAtual' = "recibo"
    /\ Passo(Menos(emVoo, <<"sair", c>>), FALSE, FALSE)
    /\ UNCHANGED <<servidor, bus, dadosCliente, interfaceState>>

\* the state the screen keeps in useState
EstadoDaTela ==
    [estadoAtual |-> estadoAtual, dadosCliente |-> dadosCliente, carrinho |-> carrinho,
     dadosCompra |-> dadosCompra, interfaceState |-> interfaceState]

\* iniciarNovaCompra leaving the Purchase of the receipt in place
iniciarNovaCompra_SemLimparCompra(t) ==
    [t EXCEPT !.carrinho = <<>>, !.interfaceState = InterfaceInicial,
              !.estadoAtual = "boas-vindas"]

\* iniciarNovaCompra as a function of the state
iniciarNovaCompra(t) ==
    [t EXCEPT !.carrinho = <<>>, !.dadosCompra = Nulo,
              !.interfaceState = InterfaceInicial, !.estadoAtual = "boas-vindas"]

\* button Fazer Nova Compra of Recibo
OnNovaCompra ==
    /\ TelaMostrada = "recibo"
    /\ LET t == iniciarNovaCompra(EstadoDaTela)
       IN  /\ estadoAtual' = t.estadoAtual
           /\ dadosCliente' = t.dadosCliente
           /\ carrinho' = t.carrinho
           /\ dadosCompra' = t.dadosCompra
           /\ interfaceState' = t.interfaceState
    /\ Passo(emVoo, apiLoading, FALSE)
    /\ UNCHANGED <<servidor, bus>>

\* event cliente-entrou-loja
ClienteEntrouLoja(cliente) ==
    /\ dadosCliente' = cliente
    /\ estadoAtual' = "boas-vindas"
    /\ interfaceState' = InterfaceInicial
    /\ Passo(emVoo, apiLoading, FALSE)
    /\ UNCHANGED <<servidor, bus, carrinho, dadosCompra>>

\* event item-adicionado, handled by the callback now subscribed: it appends
\* to the cart as it is, and decides on the estadoAtual and the client id of
\* the render it was made in; buscarCarrinho starts a request
ItemAdicionado(dadosItem) ==
    /\ Len(carrinho) < MaxItens
    /\ carrinho' = Append(carrinho, dadosItem)
    /\ estadoAtual' = IF capEstado = "boas-vindas" THEN "carrinho" ELSE estadoAtual
    /\ IF capCliente # 0
         THEN Passo(Mais(emVoo, <<"carrinho", capCliente>>), TRUE, TRUE)
         ELSE Passo(emVoo, apiLoading, FALSE)
    /\ UNCHANGED <<servidor, bus, dadosCliente, dadosCompra, interfaceState>>

\* event cliente-pagou: the screen subscribes no callback to it
ClientePagou ==
    UNCHANGED vars

NextTela ==
    \/ \E cliente \in ClientesDoEvento : ClienteEntrouLoja(cliente)
    \/ \E dadosItem \in ItensDoEvento : ItemAdicionado(dadosItem)
    \/ ClientePagou
    \/ IrParaCarrinho
    \/ VoltarParaBoasVindas
    \/ Efeitos
    \/ \E c \in IdsDeCliente, itens \in RespostasCarrinho : BuscarCarrinhoSucesso(c, itens)
    \/ \E c \in IdsDeCliente : BuscarCarrinhoFalha(c)
    \/ FinalizarCompra
    \/ \E c \in IdsDeCliente : FinalizarCompraSucesso(c)
    \/ \E c \in IdsDeCliente : FinalizarCompraFalha(c)
    \/ OnNovaCompra

\* the client screen under external events, button presses and API answers
\* in any order
SpecTela == Init /\ [][NextTela]_vars

\* ------------------------------------------------- the EventBus: actions
\* subscribe(eventName, callback): push; the function it returns is kept in
\* the history as a subscription (callback, number, not yet cancelled)
Subscribe(eventName, callback) ==
    /\ proximaInscricao < MaxInscricoes
    /\ events' = [events EXCEPT ![eventName] = Append(@, callback)]
    /\ proximaInscricao' = proximaInscricao + 1
    /\ inscricoes' = [inscricoes EXCEPT ![eventName] =
            Append(@, [callback |-> callback, id |-> proximaInscricao + 1,
                       ativa |-> TRUE])]
    /\ UNCHANGED <<servidor, tela, chamadas>>

\* this.events[eventName].filter(cb => cb !== callback)
SemCallback(lista, callback) == SelectSeq(lista, LAMBDA cb : cb # callback)

\* the function returned by the i-th subscribe to eventName is called (for
\* the first time or again)
CancelarInscricao(eventName, i) ==
    /\ i \in 1..Len(inscricoes[eventName])
    /\ events' = [events EXCEPT ![eventName] =
            SemCallback(@, inscricoes[eventName][i].callback)]
    /\ inscricoes' = [inscricoes EXCEPT ![eventName][i].ativa = FALSE]
    /\ UNCHANGED <<servidor, tela, proximaInscricao, chamadas>>

\* emit(eventName, data): forEach(callback => callback(data))
Emit(eventName, data) ==
    /\ chamadas' = [i \in 1..Len(events[eventName]) |-> <<events[eventName][i], data>>]
    /\ UNCHANGED <<servidor, tela, events, inscricoes, proximaInscricao>>

NextBus ==
    \/ \E eventName \in Eventos, callback \in Callbacks : Subscribe(eventName, callback)
    \/ \E eventName \in Eventos, i \in 1..MaxInscricoes : CancelarInscricao(eventName, i)
    \/ \E eventName \in Eventos, data \in Dados : Emit(eventName, data)

\* subscribe, cancel and emit calls on one EventBus in any order
SpecBus == Init /\ [][NextBus]_vars

\* ------------------------------------------------------------ vocabulary
\* the rows of shopper c in a state of table carrinhos
LinhasEm(cart, c) == {k \in Chaves : cart[k] > 0 /\ k[1] = c}

\* the rows (key and quantity) request p read in its findMany
LinhasLidas(p) ==
    {<<<<itensCarrinho[p][i].clienteId, itensCarrinho[p][i].produtoId>>,
       itensCarrinho[p][i].quantidade>> : i \in 1..Len(itensCarrinho[p])}

\* the rows (key and quantity) a step removes from table carrinhos
LinhasRemovidas == {<<k, carrinhos[k]>> : k \in {x \in Chaves : carrinhos[x] > 0 /\ carrinhos'[x] = 0}}

\* a step in which the handler of request p answers
Responde(p) == pc[p] # "done" /\ pc'[p] = "done"

\* the exact sum of unit price times quantity over snapshot lines, in cents
RECURSIVE CentavosAte(_, _)
CentavosAte(linhas, n) ==
    IF n = 0 THEN 0
    ELSE CentavosAte(linhas, n - 1)
           + (linhas[n].preco.r * 100 + linhas[n].preco.c) * linhas[n].quantidade

SomaExata(linhas) ==
    LET cents == CentavosAte(linhas, Len(linhas))
    IN  Dec(cents \div 100, cents % 100)

\* ------------------------------------------------------------------ claims
\* C1: every checkout request, in any interleaving, either appends exactly
\* one Purchase and removes exactly the cart rows it read (same rows, same
\* quantities, no row added after the read), or appends no Purchase and
\* removes no cart row; before it answers it changes no committed row.
C1_UmaCompraELinhasLidasOuNada ==
    [][\A p \in Pedidos :
          /\ Responde(p) =>
                \/ /\ compras' = Append(compras, novaCompra[p])
                   /\ LinhasRemovidas = LinhasLidas(p)
                   /\ \A k \in Chaves : carrinhos'[k] \in {0, carrinhos[k]}
                \/ /\ compras' = compras
                   /\ carrinhos' = carrinhos
          /\ (pc'[p] # pc[p] /\ ~Responde(p)) =>
                (compras' = compras /\ carrinhos' = carrinhos)]_vars

\* C2: when both checkout requests of one shopper with a non-empty cart have
\* been answered, exactly one got the Purchase and the other the empty-cart
\* error, and the ledger holds one Purchase.
C2_UmSucessoUmCarrinhoVazio ==
    (\A p \in Pedidos : pc[p] = "done") =>
        /\ Len(compras) = 1
        /\ \E p \in Pedidos :
              /\ res[p] = RespostaSucesso(compras[1])
              /\ \A q \in Pedidos \ {p} : res[q] = RespostaErro(MsgCarrinhoVazio)

\* C3: the total of every Purchase, persisted or returned, is the exact sum
\* of unit price times quantity over its snapshot lines, and the returned
\* Purchase is the persisted one.
C3_TotalExato ==
    /\ \A i \in 1..Len(compras) :
          compras[i].valorTotal = SomaExata(compras[i].itensComprados)
    /\ \A p \in Pedidos : Sucesso(p) =>
          /\ res[p].body.valorTotal = SomaExata(res[p].body.itensComprados)
          /\ \E i \in 1..Len(compras) : compras[i] = res[p].body

\* a Purchase of one unit at 799.90 and two at 499.90 with total 1799.70
C3_Witness ==
    \E i \in 1..Len(compras) :
        /\ Len(compras[i].itensComprados) = 2
        /\ \E a, b \in 1..2 :
              /\ compras[i].itensComprados[a].preco = Dec(799, 90)
              /\ compras[i].itensComprados[a].quantidade = 1
              /\ compras[i].itensComprados[b].preco = Dec(499, 90)
              /\ compras[i].itensComprados[b].quantidade = 2
        /\ compras[i].valorTotal = Dec(1799, 70)

\* C4: a checkout request that fails, at whatever step, has committed
\* nothing: the step that answers with an error leaves carts and ledger as
\* they are; and a Purchase is appended only together with the removal of the
\* cart rows its transaction deleted, a cart row is removed only together with
\* the append of a Purchase, both by a request answered with success.
C4_FalhaNaoDeixaRastro ==
    [][/\ \A p \in Pedidos :
             (Responde(p) /\ res'[p].status # 201) =>
                 (compras' = compras /\ carrinhos' = carrinhos)
       /\ (compras' # compras \/ LinhasRemovidas # {}) =>
             \E p \in Pedidos :
                 /\ Responde(p)
                 /\ res'[p] = RespostaSucesso(novaCompra[p])
                 /\ compras' = Append(compras, novaCompra[p])
                 /\ \A k \in txDel[p] : carrinhos'[k] = 0]_vars

\* a request failed after its Purchase was created and its cart rows deleted
\* inside the transaction, and cart and ledger show nothing of it
C4_Witness ==
    \E p \in Pedidos :
        /\ Fracasso(p)
        /\ res[p].body.error = MsgPersistencia
        /\ novaCompra[p].id > 0
        /\ \A i \in 1..Len(compras) : compras[i].id # novaCompra[p].id
        /\ LinhasLidas(p) # {}
        /\ \A l \in LinhasLidas(p) : carrinhos[l[1]] = l[2]

\* C5: a checkout whose cart read finds no line answers with the empty-cart
\* error, the cart is still empty and the ledger has no new entry.
C5_CarrinhoVazioRejeitado ==
    [][\A p \in Pedidos :
          (FindMany(p) /\ LinhasDe(clienteId[p]) = {}) =>
              /\ pc'[p] = "done"
              /\ res'[p] = RespostaErro(MsgCarrinhoVazio)
              /\ LinhasEm(carrinhos', clienteId[p]) = {}
              /\ compras' = compras]_vars

\* a request answered with the empty-cart error, nothing in the ledger
C5_Witness ==
    \E p \in Pedidos :
        /\ Fracasso(p)
        /\ res[p].body.error = MsgCarrinhoVazio
        /\ itensCarrinho[p] = <<>>
        /\ compras = <<>>

C7_SnapshotCongelado ==
    [][/\ \A p \in Pedidos :
             (Include(p) /\ pc'[p] = "create") =>
                 /\ Len(novaCompra'[p].itensComprados) = Len(itensCarrinho'[p])
                 /\ \A i \in 1..Len(itensCarrinho'[p]) :
                       LET l == novaCompra'[p].itensComprados[i]
                       IN  /\ l.id = itensCarrinho'[p][i].produtoId
                           /\ l.nome = produtos[l.id].nome
                           /\ l.preco = produtos[l.id].preco
       /\ \A p \in Pedidos :
             Commit(p) =>
                 compras'[Len(compras')].itensComprados = novaCompra[p].itensComprados
       /\ (produtos' # produtos) =>
             (compras' = compras /\ novaCompra' = novaCompra /\ res' = res)
       /\ \A i \in 1..Len(compras) :
             /\ Len(compras') >= i
             /\ compras'[i].itensComprados = compras[i].itensComprados
             /\ compras'[i].valorTotal = compras[i].valorTotal]_vars

\* a recorded Purchase of two units whose snapshot price is no longer the
\* catalog's price of the product
C7_Witness ==
    \E i \in 1..Len(compras) : \E j \in 1..Len(compras[i].itensComprados) :
        LET l == compras[i].itensComprados[j]
        IN  /\ l.quantidade = 2
            /\ l.preco = Dec(799, 90)
            /\ produtos[l.id].preco = Dec(899, 90)

\* C8: the ledger is append-only: every step keeps every recorded Purchase
\* in place and unchanged, and the ledger grows by exactly one record in a
\* step that answers a checkout with success and by none in any other step.
C8_LedgerSoCresce ==
    [][/\ Len(compras') >= Len(compras)
       /\ \A i \in 1..Len(compras) : compras'[i] = compras[i]
       /\ Len(compras') - Len(compras) =
             Cardinality({p \in Pedidos : Responde(p) /\ res'[p].status = 201})
       /\ Len(compras') - Len(compras) <= 1]_vars

\* two Purchases in the ledger, both requests answered with success
C8_Witness ==
    /\ Len(compras) = 2
    /\ compras[1].id # compras[2].id
    /\ \A p \in Pedidos : Sucesso(p)

\* C9: a checkout request of shopper s1 never changes a cart row of another
\* shopper, reads rows of s1 only, records and returns a Purchase of s1 made
\* of the rows it read, answers the empty-cart error exactly when it read no
\* row, and its DELETE never waits for the transaction of a request of
\* another shopper.
C9_ClientesIndependentes ==
    /\ [][\A p \in Pedidos :
             (pc'[p] # pc[p]) =>
                 \A k \in Chaves :
                     k[1] # clienteId'[p] => carrinhos'[k] = carrinhos[k]]_vars
    /\ [](\A p \in Pedidos :
             /\ \A i \in 1..Len(itensCarrinho[p]) :
                   itensCarrinho[p][i].clienteId = clienteId[p]
             /\ txDel[p] \cup delSnap[p] \subseteq {k \in Chaves : k[1] = clienteId[p]}
             /\ Sucesso(p) =>
                   /\ res[p].body.clienteId = clienteId[p]
                   /\ res[p].body.itensComprados = ItensComprados(itensCarrinho[p])
                   /\ \E i \in 1..Len(compras) : compras[i] = res[p].body
             /\ (Fracasso(p) /\ res[p].body.error = MsgCarrinhoVazio) =>
                   itensCarrinho[p] = <<>>
             /\ (pc[p] \in {"include", "create", "deleteMany", "deleting", "commit"}) =>
                   itensCarrinho[p] # <<>>
             /\ (pc[p] = "deleting"
                   /\ \A q \in Pedidos \ {p} : clienteId[q] # clienteId[p]) =>
                   ENABLED DeleteManyFim(p))

\* the two requests are of different shoppers and each got a Purchase of its
\* own shopper's cart
C9_Witness ==
    /\ \A p \in Pedidos : Sucesso(p)
    /\ clienteId["p1"] # clienteId["p2"]
    /\ Len(compras) = 2
    /\ compras[1].clienteId # compras[2].clienteId

\* C10: a failed checkout is answered with a status of the class of its
\* error: the empty cart with a client error (4xx), a failure of the database
\* with a server error (5xx), and never both with the same status.
C10_StatusPorTipoDeErro ==
    \A p \in Pedidos :
        Fracasso(p) =>
            /\ res[p].body.error = MsgCarrinhoVazio => res[p].status \in 400..499
            /\ res[p].body.error = MsgPersistencia => res[p].status \in 500..599

C12_UmaEntradaPorLinha ==
    \A p \in Pedidos :
        (pc[p] \in {"create", "deleteMany", "deleting", "commit"} \/ Sucesso(p)) =>
            LET snap == novaCompra[p].itensComprados
                lidos == itensCarrinho[p]
            IN  /\ Len(snap) = Len(lidos)
                /\ \A i \in 1..Len(lidos) :
                      /\ snap[i].id = lidos[i].produtoId
                      /\ snap[i].nome = lidos[i].produto.nome
                      /\ snap[i].preco = lidos[i].produto.preco
                      /\ snap[i].quantidade = lidos[i].quantidade
                /\ \A i, j \in 1..Len(snap) : snap[i].id = snap[j].id => i = j
                /\ Sucesso(p) =>
                      /\ res[p].body.itensComprados = snap
                      /\ \E i \in 1..Len(compras) :
                            /\ compras[i].id = novaCompra[p].id
                            /\ compras[i].itensComprados = snap

\* a recorded Purchase of two lines with different quantities, product 2
\* read first
C12_Witness ==
    \E p \in Pedidos :
        /\ Sucesso(p)
        /\ Len(itensCarrinho[p]) = 2
        /\ itensCarrinho[p][1].produtoId = 2
        /\ itensCarrinho[p][1].quantidade = 2
        /\ itensCarrinho[p][2].quantidade = 1
        /\ compras[Len(compras)].itensComprados[1].id = 2

\* C13: when a checkout fails with a database error and the call is repeated
\* with the cart unchanged, a call that succeeds leaves exactly one Purchase
\* in the ledger, made of the cart's lines, and the shopper's cart empty; as
\* long as no call has succeeded the ledger is empty and the cart is as every
\* call read it.
C13_RepetirESeguro ==
    /\ \A p \in Pedidos :
          Sucesso(p) =>
              /\ Len(compras) = 1
              /\ compras[1] = res[p].body
              /\ compras[1].itensComprados = ItensComprados(itensCarrinho[p])
              /\ LinhasEm(carrinhos, clienteId[p]) = {}
              /\ \A q \in Pedidos : LinhasLidas(q) \in {{}, LinhasLidas(p)}
    /\ (\A p \in Pedidos : ~Sucesso(p)) =>
          /\ compras = <<>>
          /\ \A p \in Pedidos : \A l \in LinhasLidas(p) : carrinhos[l[1]] = l[2]

\* the first call failed after its Purchase was created and its cart rows
\* deleted in the transaction; the repeated call succeeded: one Purchase
C13_Witness ==
    /\ Fracasso("p1")
    /\ novaCompra["p1"].id = 1
    /\ Sucesso("p2")
    /\ Len(compras) = 1
    /\ compras[1].id = 2


\* C14: if the caller cancels the request or a timeout elapses before the unit
\* of work commits, the unit of work is rolled back: no Purchase of that call
\* is ever visible in the ledger and the shopper's cart keeps all its lines.
\* (A request given up before its commit has no Purchase of its own in the
\* ledger, and its transaction removes no cart row.)
C14_CanceladoNaoConfirma ==
    /\ [](\A p \in Pedidos :
             cancelado[p] =>
                 \A i \in 1..Len(compras) : compras[i].id # novaCompra[p].id)
    /\ [][\A p \in Pedidos :
             (cancelado[p] /\ Commit(p)) => carrinhos' = carrinhos]_vars

\* the ids of the Purchases in the ledger
IdsNoLedger == {compras[i].id : i \in 1..Len(compras)}

\* the requests whose transaction has created a Purchase and not yet ended
Pendentes == {p \in Pedidos : pc[p] \in {"deleteMany", "deleting", "commit"}}

\* C15: every Purchase gets a fresh identity: no two Purchases in the ledger
\* have the same id, and the id of a Purchase created and not yet committed
\* differs from every id in the ledger and from every other such id.
C15_IdsFrescos ==
    /\ \A i, j \in 1..Len(compras) : compras[i].id = compras[j].id => i = j
    /\ \A p \in Pendentes :
          /\ novaCompra[p].id \notin IdsNoLedger
          /\ \A q \in Pendentes : novaCompra[p].id = novaCompra[q].id => p = q

\* two concurrent checkouts both committed, the one created second first
C15_Witness ==
    /\ Len(compras) = 2
    /\ compras[1].id = 2
    /\ compras[2].id = 1

\* the items of a request in another order, and without the item at i
Reordenado(itens, ordem) == [i \in 1..Len(itens) |-> itens[ordem[i]]]
SemItem(itens, i) == SubSeq(itens, 1, i - 1) \o SubSeq(itens, i + 1, Len(itens))

\* C16: the total does not depend on the order in which the cart read returns
\* the lines: for every permutation of the lines a request has read the total
\* is the one the request computed, and every line contributes to it (the
\* total is the total of the other lines plus that line's subtotal).
C16_TotalSemOrdem ==
    \A p \in Pedidos :
        pc[p] \in {"create", "deleteMany", "deleting", "commit"} =>
            LET itens == itensCarrinho[p]
            IN  /\ \A ordem \in Ordens(1..Len(itens)) :
                      ValorTotal(Reordenado(itens, ordem)) = novaCompra[p].valorTotal
                /\ \A i \in 1..Len(itens) :
                      novaCompra[p].valorTotal
                          = DecPlus(ValorTotal(SemItem(itens, i)), Subtotal(itens[i]))

\* a request has computed the total of two lines with different subtotals
C16_Witness ==
    /\ pc["p1"] = "create"
    /\ Len(itensCarrinho["p1"]) = 2
    /\ Subtotal(itensCarrinho["p1"][1]) # Subtotal(itensCarrinho["p1"][2])
    /\ novaCompra["p1"].valorTotal = ValorTotal(itensCarrinho["p1"])

\* C17: the store-entry operation performs no persistent mutation: for every
\* client id, known or unknown, it leaves all carts, the ledger, the clients
\* and the catalog unchanged; it answers not-found for an unknown client and a
\* success message (naming the client) for a known one.
C17_EntrarNaoMuda ==
    [][\A c \in IdsDeEntrada :
          /\ (Entrar(c) \/ EntrarFalha(c)) =>
                 /\ carrinhos' = carrinhos
                 /\ compras' = compras
                 /\ comprasIdSeq' = comprasIdSeq
                 /\ clientes' = clientes
                 /\ produtos' = produtos
          /\ Entrar(c) =>
                 IF c \in DOMAIN ClientesSeed
                   THEN /\ resEntrar'.status = 200
                        /\ resEntrar'.body.status = "sucesso"
                        /\ resEntrar'.body.mensagem[2] = ClientesSeed[c].nome
                   ELSE /\ resEntrar'.status = 404
                        /\ resEntrar'.body = [error |-> MsgClienteNaoEncontrado]]_vars

\* an unknown client was answered not-found while a cart holds a line and the
\* ledger a Purchase
C17_Witness ==
    /\ resEntrar.status = 404
    /\ \E k \in Chaves : carrinhos[k] > 0
    /\ Len(compras) = 1

\* the units of product prod in the first n lines of a Purchase snapshot
RECURSIVE UnidadesAte(_, _, _)
UnidadesAte(linhas, prod, n) ==
    IF n = 0 THEN 0
    ELSE UnidadesAte(linhas, prod, n - 1)
           + (IF linhas[n].id = prod THEN linhas[n].quantidade ELSE 0)

\* the units of cart key k over the first n Purchases of the ledger
RECURSIVE CompradoAte(_, _)
CompradoAte(k, n) ==
    IF n = 0 THEN 0
    ELSE CompradoAte(k, n - 1)
           + (IF compras[n].clienteId = k[1]
                THEN UnidadesAte(compras[n].itensComprados, k[2],
                                 Len(compras[n].itensComprados))
                ELSE 0)

Comprado(k) == CompradoAte(k, Len(compras))

\* C18: conservation of cart items: in every reachable state, for every
\* shopper and product, the quantity ever added to the cart equals the
\* quantity now in the cart plus the sum of that product's quantities over
\* the shopper's Purchase snapshots.
C18_Conservacao ==
    \A k \in Chaves : adicionado[k] = carrinhos[k] + Comprado(k)

\* C19: a checkout request whose body carries no clienteId changes nothing:
\* it creates no Purchase and removes no cart line of any shopper, because the
\* purchase create fails before the cart delete is reached and the
\* transaction is rolled back.
C19_SemClienteNadaMuda ==
    /\ [](\A p \in Pedidos :
             clienteId[p] = Indefinido =>
                 /\ pc[p] \notin {"deleteMany", "deleting", "commit"}
                 /\ delSnap[p] = {} /\ txDel[p] = {}
                 /\ novaCompra[p].id = 0
                 /\ \A i \in 1..Len(compras) : compras[i].clienteId # Indefinido
                 /\ pc[p] = "done" => Fracasso(p))
    /\ [][\A p \in Pedidos :
             (clienteId'[p] = Indefinido /\ pc'[p] # pc[p]) =>
                 /\ carrinhos' = carrinhos
                 /\ compras' = compras]_vars

\* the request read the cart rows of both shoppers, its create was refused,
\* and the rows are all still there
C19_Witness ==
    /\ clienteId["p1"] = Indefinido
    /\ Fracasso("p1")
    /\ res["p1"].body.error = MsgValidacao
    /\ \E i, j \in 1..Len(itensCarrinho["p1"]) :
          itensCarrinho["p1"][i].clienteId # itensCarrinho["p1"][j].clienteId
    /\ \A l \in LinhasLidas("p1") : carrinhos[l[1]] = l[2]

\* the total of the lines of a Purchase snapshot, with exact decimal sums
RECURSIVE TotalDoSnapshotAte(_, _)
TotalDoSnapshotAte(linhas, n) ==
    IF n = 0 THEN DecZero
    ELSE DecPlus(TotalDoSnapshotAte(linhas, n - 1),
                 DecTimes(linhas[n].preco, linhas[n].quantidade))

TotalDoSnapshot(linhas) == TotalDoSnapshotAte(linhas, Len(linhas))

\* at most 99999999.99
NoLimite(d) == d.r <= MaxReais /\ d.c \in 0..99

\* C20: when the computed total of a cart exceeds the largest value of the
\* total column (99999999.99), finalizePurchase fails with no Purchase
\* recorded and the cart unchanged; a Purchase is never stored with a
\* truncated or wrapped total (every stored total is within the limit and is
\* the exact total of its snapshot).
C20_TotalForaDaColuna ==
    /\ [](/\ \A i \in 1..Len(compras) :
                /\ NoLimite(compras[i].valorTotal)
                /\ compras[i].valorTotal = TotalDoSnapshot(compras[i].itensComprados)
          /\ \A p \in Pedidos :
                (novaCompra[p] # SemCompra /\ ~NoLimite(novaCompra[p].valorTotal)) =>
                    /\ pc[p] \in {"create", "done"}
                    /\ novaCompra[p].id = 0
                    /\ pc[p] = "done" => Fracasso(p))
    /\ [][\A p \in Pedidos :
             (Create(p) /\ ~NoLimite(novaCompra[p].valorTotal)) =>
                 /\ carrinhos' = carrinhos
                 /\ compras' = compras
                 /\ Fracasso(p)']_vars

\* a cart whose total is 100000000.00, one centavo past the limit, was
\* refused: no Purchase, the lines read are still in the cart
C20_Witness ==
    /\ Fracasso("p1")
    /\ res["p1"].body.error = MsgPersistencia
    /\ novaCompra["p1"].valorTotal = Dec(MaxReais + 1, 0)
    /\ compras = <<>>
    /\ \A l \in LinhasLidas("p1") : carrinhos[l[1]] = l[2]

\* C21: the client screen is in 'recibo' only with the result of a finalized
\* purchase: whenever estadoAtual is 'recibo', dadosCompra is the Purchase
\* returned by a successful POST /api/simulacao/sair for the current client; a
\* failed checkout request never moves the screen to 'recibo' and never
\* empties the local cart.
C21_ReciboSoComCompra ==
    /\ [](estadoAtual = "recibo" =>
             /\ dadosCliente # Nulo
             /\ dadosCompra = CompraDaApi(IdDe(dadosCliente)))
    /\ [][\A c \in IdsDeCliente :
             FinalizarCompraFalha(c) =>
                 /\ estadoAtual' = estadoAtual
                 /\ carrinho' = carrinho]_vars

\* C22: after any sequence of external events, button actions and API
\* responses, estadoAtual is one of 'boas-vindas', 'carrinho', 'recibo' (the
\* invalid-state error screen is unreachable), it starts at 'boas-vindas', and
\* 'recibo' is entered only from finalizarCompra and left only through
\* iniciarNovaCompra or a cliente-entrou-loja event.
C22_EstadosDaTela ==
    /\ estadoAtual = "boas-vindas"
    /\ [](estadoAtual \in Estados /\ TelaMostrada # "estado-invalido")
    /\ [][(estadoAtual # "recibo" /\ estadoAtual' = "recibo") =>
              (\E c \in IdsDeCliente :
                  FinalizarCompraSucesso(c) \/ FinalizarCompraFalha(c))]_vars
    /\ [][(estadoAtual = "recibo" /\ estadoAtual' # "recibo") =>
              (OnNovaCompra
                \/ \E cliente \in ClientesDoEvento : ClienteEntrouLoja(cliente))]_vars

\* C23: the loading flag of useApiCall tracks in-flight requests: loading is
\* true whenever at least one makeRequest call has started and not yet
\* completed, also when several requests overlap, and false when none is in
\* flight; the error value it returns is null in every reachable state.
C23_LoadingSeguePedidos ==
    /\ apiLoading <=> EmVooTotal > 0
    /\ apiError = Nulo

\* C24: once finalizarCompra has completed and the screen is in 'recibo', the
\* local cart stays empty until a new item-adicionado event arrives: a cart
\* fetch started before the checkout and resolving after it cannot put items
\* back into the local cart.
C24_CarrinhoVazioNoRecibo ==
    [][(estadoAtual = "recibo" /\ carrinho = <<>> /\ carrinho' # <<>>) =>
          (\E dadosItem \in ItensDoEvento : ItemAdicionado(dadosItem))]_vars

\* the callbacks of the subscriptions to an event made and not cancelled, in
\* subscription order
Ativa(inscricao) == inscricao.ativa
CallbacksAtivos(eventName) ==
    LET ativas == SelectSeq(inscricoes[eventName], Ativa)
    IN  [i \in 1..Len(ativas) |-> ativas[i].callback]

\* C25: EventBus subscription protocol: emit(e, d) calls every callback
\* currently subscribed to e exactly once per subscription, in subscription
\* order, with d, and no callback subscribed only to other events; the
\* function returned by subscribe(e, cb) cancels exactly that subscription
\* (every other subscription to e, including another subscription of the same
\* cb, is still called); calling the cancel function twice has the same
\* effect as calling it once.
C25_ProtocoloDoEventBus ==
    /\ [](\A eventName \in Eventos : events[eventName] = CallbacksAtivos(eventName))
    /\ [][\A eventName \in Eventos, data \in Dados :
             Emit(eventName, data) =>
                 chamadas' = [i \in 1..Len(CallbacksAtivos(eventName)) |->
                                 <<CallbacksAtivos(eventName)[i], data>>]]_vars
    /\ [][\A eventName \in Eventos, i \in 1..MaxInscricoes :
             (CancelarInscricao(eventName, i) /\ ~inscricoes[eventName][i].ativa) =>
                 events' = events]_vars

\* C26: an item-adicionado event appends the item to the local cart in every
\* screen state; if the screen is in 'boas-vindas' when the event arrives it
\* moves to 'carrinho', and if it is in 'carrinho' or 'recibo' estadoAtual is
\* unchanged; dadosCliente and dadosCompra are unchanged in all cases.
C26_ItemAdicionadoNaTela ==
    [][\A dadosItem \in ItensDoEvento :
          ItemAdicionado(dadosItem) =>
              /\ carrinho' = Append(carrinho, dadosItem)
              /\ estadoAtual' = IF estadoAtual = "boas-vindas" THEN "carrinho"
                                 ELSE estadoAtual
              /\ dadosCliente' = dadosCliente
              /\ dadosCompra' = dadosCompra]_vars

\* C27: iniciarNovaCompra restarts the flow from any state: afterwards the
\* local cart is empty, dadosCompra is null, the interface state is
\* {loading: false, error: null} and estadoAtual is 'boas-vindas', while
\* dadosCliente is unchanged; applying it twice gives the same state as
\* applying it once. (Checked for the function applied to every reachable
\* state of the screen, and for the step of the button that calls it.)
C27_NovaCompraReinicia ==
    /\ [](LET t == iniciarNovaCompra(EstadoDaTela)
          IN  /\ t.carrinho = <<>>
              /\ t.dadosCompra = Nulo
              /\ t.interfaceState = [loading |-> FALSE, error |-> Nulo]
              /\ t.estadoAtual = "boas-vindas"
              /\ t.dadosCliente = dadosCliente
              /\ iniciarNovaCompra(t) = t)
    /\ [][OnNovaCompra =>
             /\ carrinho' = <<>>
             /\ dadosCompra' = Nulo
             /\ interfaceState' = [loading |-> FALSE, error |-> Nulo]
             /\ estadoAtual' = "boas-vindas"
             /\ dadosCliente' = dadosCliente]_vars

\* the button was pressed on the receipt of a known client: the Purchase is
\* gone (only iniciarNovaCompra resets dadosCompra), the screen is back at
\* 'boas-vindas' and the effects of the 'recibo' render were the last to run
C27_Witness ==
    /\ capEstado = "recibo"
    /\ estadoAtual = "boas-vindas"
    /\ dadosCompra = Nulo
    /\ carrinho = <<>>
    /\ dadosCliente # Nulo

====
